---------------------------- MODULE Spec2Model ----------------------------
(***************************************************************************)
(* A model of nse_backend.py: the TTL cache, the cached quote fetcher,     *)
(* the thread-pool fan-out and the Flask views built on them.              *)
(*                                                                         *)
(* Strings are tuples of one-character strings, so that suffix tests,      *)
(* substring search and key concatenation are computed, not assumed.       *)
(* Python's None is the record None; every dict is a record, and a dict    *)
(* of the program is never empty, so it is truthy exactly when it is not   *)
(* None.  Money is counted in thousandths of a rupee before rounding and   *)
(* in hundredths after it; changePercent is in hundredths of a percent.    *)
(* The two configured symbol tables are cut to a few of their entries.     *)
(***************************************************************************)
EXTENDS Integers, Sequences, FiniteSets, TLC

(***************************************************************************)
(* Bounds of the model.                                                    *)
(***************************************************************************)
NumThreads == 2        \* request threads of the server
MaxRoutes == 1         \* routes the clients of one run call
MaxTime == 60          \* the clock stops advancing here
MaxMixed == 3          \* fetched quotes that take any change
MaxFetched == 11       \* quotes one fan-out returns to the movers views
MaxSymbolLen == 4      \* characters of a requested symbol
MaxQueryLen == 2       \* characters of a search query
MaxPoolSymbols == 11   \* symbols passed to one fetch_stocks_concurrent call
MaxCloseSteps == 15    \* closing prices the provider reports, in steps
MaxLateTime == 120     \* the clock of the runs that span two cache lifetimes
NumLockWorkers == 2    \* pool workers whose locking is followed

(***************************************************************************)
(* Program constants.                                                      *)
(***************************************************************************)
CACHE_TTL == 60
MAX_WORKERS == 10
STOCKS_SLICE == 20
MOVERS_SLICE == 30
TOP_N == 10

None == [none |-> TRUE]

Truthy(v) == v # None

(***************************************************************************)
(* Strings.                                                                *)
(***************************************************************************)
LowerCase == <<"a","b","c","d","e","f","g","h","i","j","k","l","m",
               "n","o","p","q","r","s","t","u","v","w","x","y","z">>
UpperCase == <<"A","B","C","D","E","F","G","H","I","J","K","L","M",
               "N","O","P","Q","R","S","T","U","V","W","X","Y","Z">>

UpperChar(c) ==
    IF \E i \in 1..26 : LowerCase[i] = c
    THEN UpperCase[CHOOSE i \in 1..26 : LowerCase[i] = c]
    ELSE c

upper(s) == [i \in 1..Len(s) |-> UpperChar(s[i])]

endswith(s, suffix) ==
    /\ Len(suffix) <= Len(s)
    /\ SubSeq(s, Len(s) - Len(suffix) + 1, Len(s)) = suffix

\* Python's `q in s` on strings: q is a contiguous substring of s.
contains(s, q) ==
    \E i \in 0..(Len(s) - Len(q)) : SubSeq(s, i + 1, i + Len(q)) = q

DOT_NS == <<".", "N", "S">>
DOT_BO == <<".", "B", "O">>
STOCK_PREFIX == <<"s", "t", "o", "c", "k", "_">>

StockKey(symbol) == STOCK_PREFIX \o symbol

INDICES_KEY == <<"i","n","d","i","c","e","s","_","r","e","s","p","o","n","s","e">>
STOCKS_KEY == <<"s","t","o","c","k","s","_","r","e","s","p","o","n","s","e">>
GAINERS_KEY == <<"g","a","i","n","e","r","s","_","r","e","s","p","o","n","s","e">>
LOSERS_KEY == <<"l","o","s","e","r","s","_","r","e","s","p","o","n","s","e">>

(***************************************************************************)
(* Configuration tables (a few entries of each).                           *)
(***************************************************************************)
NSEI == <<"^", "N", "S", "E", "I">>
TCS_NS == <<"T", "C", "S", ".", "N", "S">>
ITC_NS == <<"I", "T", "C", ".", "N", "S">>

\* NSE_INDICES.values(), in insertion order, and the name of each.
NSE_INDICES == <<NSEI>>
NSE_INDEX_NAMES == <<"NIFTY 50">>

NIFTY_50_STOCKS == <<TCS_NS, ITC_NS>>

\* Python's s[:n].
Slice(s, n) == SubSeq(s, 1, IF n < Len(s) THEN n ELSE Len(s))

(***************************************************************************)
(* The cache: a dict from key to (data, timestamp).                        *)
(***************************************************************************)
\* Mutant: an entry is still served at exactly CACHE_TTL seconds.
get_cached_inclusive(c, key, t) ==
    IF key \in DOMAIN c /\ t - c[key].timestamp <= CACHE_TTL
    THEN c[key].data
    ELSE None

get_cached(c, key, t) ==
    IF key \in DOMAIN c /\ t - c[key].timestamp < CACHE_TTL
    THEN c[key].data
    ELSE None

set_cached(c, key, data, t) ==
    [k \in (DOMAIN c) \cup {key} |->
        IF k = key THEN [data |-> data, timestamp |-> t] ELSE c[k]]

(***************************************************************************)
(* Arithmetic of get_stock_data.                                           *)
(***************************************************************************)
\* n / d rounded to the nearest integer, ties to even (d > 0).
RoundDiv(n, d) ==
    LET q == n \div d
        r == n % d
    IN  IF 2 * r < d THEN q
        ELSE IF 2 * r > d THEN q + 1
        ELSE IF q % 2 = 0 THEN q ELSE q + 1

\* round(x, 2) of an amount given in thousandths: the result in hundredths.
Round2(x) == RoundDiv(x, 10)

Abs(x) == IF x < 0 THEN 0 - x ELSE x

(***************************************************************************)
(* The upstream provider: what ticker.info and ticker.history give.        *)
(***************************************************************************)
Num(v) == [tag |-> "num", val |-> v]
Null == [tag |-> "null"]
Missing == [tag |-> "missing"]

Raises == [kind |-> "raise"]
EmptyHistory == [kind |-> "empty"]
Data(close, prev) == [kind |-> "data", close |-> close, previousClose |-> prev]

\* The answers the provider gives in the server model.
ProviderOutcomes ==
    { Raises, EmptyHistory,
      Data(110004, Num(100000)), Data(95000, Num(100000)) }

\* Lines 95-116: the quote built from a provider answer, or None.
Assemble(symbol, out) ==
    IF out.kind # "data" THEN None
    ELSE LET current_price == out.close
             prev == out.previousClose
         IN  IF prev.tag = "null" THEN None      \* float - None raises TypeError
             ELSE LET prev_close == IF prev.tag = "missing" THEN current_price
                                    ELSE prev.val
                      change == current_price - prev_close
                      change_percent == IF prev_close # 0
                                        THEN RoundDiv(change * 10000, prev_close)
                                        ELSE 0
                  IN  [symbol |-> symbol,
                       price |-> Round2(current_price),
                       change |-> Round2(change),
                       changePercent |-> change_percent]

(***************************************************************************)
(* Sorting: list.sort(key=..., reverse=...) is stable in both directions.  *)
(***************************************************************************)
\* The sort keys the views use.
SortKey(key, x) ==
    CASE key = "abs" -> Abs(x.changePercent)
      [] key = "changePercent" -> x.changePercent

\* x put into the sorted list s behind every element that may stay before it.
RECURSIVE InsertSorted(_, _, _, _)
InsertSorted(x, s, key, reverse) ==
    IF s = <<>> THEN <<x>>
    ELSE LET staysFirst == IF reverse THEN SortKey(key, Head(s)) >= SortKey(key, x)
                           ELSE SortKey(key, Head(s)) <= SortKey(key, x)
         IN  IF staysFirst
             THEN <<Head(s)>> \o InsertSorted(x, Tail(s), key, reverse)
             ELSE <<x>> \o s

RECURSIVE SortBy(_, _, _)
SortBy(s, key, reverse) ==
    IF s = <<>> THEN <<>>
    ELSE InsertSorted(s[Len(s)], SortBy(SubSeq(s, 1, Len(s) - 1), key, reverse),
                      key, reverse)

(***************************************************************************)
(* Shaping of the views (the code between the fan-out and the response).   *)
(***************************************************************************)
\* symbol_to_name.get(symbol, symbol)
IndexName(symbol) ==
    IF \E i \in 1..Len(NSE_INDICES) : NSE_INDICES[i] = symbol
    THEN NSE_INDEX_NAMES[CHOOSE i \in 1..Len(NSE_INDICES) : NSE_INDICES[i] = symbol]
    ELSE symbol

IndicesData(results, t) ==
    [i \in 1..Len(results) |->
        [name |-> IndexName(results[i].symbol),
         symbol |-> results[i].symbol,
         price |-> results[i].price,
         change |-> results[i].change,
         changePercent |-> results[i].changePercent,
         timestamp |-> t]]

\* Mutant: the sort of get_stocks is left out.
StocksData_unsorted(results) == results

StocksData(results) == SortBy(results, "abs", TRUE)

\* Mutant: a quote that did not move counts as a gainer.
GainersData_nonnegative(all_stocks) ==
    Slice(SortBy(SelectSeq(all_stocks, LAMBDA x : x.changePercent >= 0),
                 "changePercent", TRUE), TOP_N)

GainersData(all_stocks) ==
    Slice(SortBy(SelectSeq(all_stocks, LAMBDA x : x.changePercent > 0),
                 "changePercent", TRUE), TOP_N)

\* Mutant: the filter of get_losers is left out.
LosersData_unfiltered(all_stocks) ==
    Slice(SortBy(all_stocks, "changePercent", FALSE), TOP_N)

LosersData(all_stocks) ==
    Slice(SortBy(SelectSeq(all_stocks, LAMBDA x : x.changePercent < 0),
                 "changePercent", FALSE), TOP_N)

Views == {"indices", "stocks", "gainers", "losers"}

ViewKey(view) ==
    CASE view = "indices" -> INDICES_KEY
      [] view = "stocks" -> STOCKS_KEY
      [] view = "gainers" -> GAINERS_KEY
      [] view = "losers" -> LOSERS_KEY

ViewSymbols(view) ==
    CASE view = "indices" -> NSE_INDICES
      [] view = "stocks" -> Slice(NIFTY_50_STOCKS, STOCKS_SLICE)
      [] view = "gainers" -> Slice(NIFTY_50_STOCKS, MOVERS_SLICE)
      [] view = "losers" -> Slice(NIFTY_50_STOCKS, MOVERS_SLICE)

ViewData(view, results, t) ==
    CASE view = "indices" -> IndicesData(results, t)
      [] view = "stocks" -> StocksData(results)
      [] view = "gainers" -> GainersData(results)
      [] view = "losers" -> LosersData(results)

\* Mutant: an empty result set is reported as a failure.
AggregateResponse_strict(data, t) ==
    [success |-> data # <<>>, count |-> Len(data), data |-> data,
     timestamp |-> t]

AggregateResponse(data, t) ==
    [success |-> TRUE, count |-> Len(data), data |-> data, timestamp |-> t]

\* Mutant: the query is not uppercased before the match.
matching_symbols_as_typed(query) ==
    SelectSeq(NIFTY_50_STOCKS, LAMBDA s : contains(upper(s), query))

\* search_stocks, line 324
matching_symbols(query) ==
    SelectSeq(NIFTY_50_STOCKS, LAMBDA s : contains(upper(s), upper(query)))

SearchResponse(query, results) ==
    [success |-> TRUE, query |-> upper(query), count |-> Len(results),
     data |-> results]

\* Mutant: `or` in place of `and`, so that a symbol with one suffix still
\* lacks the other and gets ".NS" appended.
NormalizeSymbol_or(symbol) ==
    IF ~endswith(symbol, DOT_NS) \/ ~endswith(symbol, DOT_BO)
    THEN symbol \o DOT_NS
    ELSE symbol

\* get_single_stock, lines 252-253
NormalizeSymbol(symbol) ==
    IF ~endswith(symbol, DOT_NS) /\ ~endswith(symbol, DOT_BO)
    THEN symbol \o DOT_NS
    ELSE symbol

\* Mutant: the 404 branch is never taken.
StockResponse_always200(data, t) ==
    [status |-> 200, success |-> TRUE, data |-> data, timestamp |-> t]

StockResponse(data, t) ==
    IF Truthy(data)
    THEN [status |-> 200, success |-> TRUE, data |-> data, timestamp |-> t]
    ELSE [status |-> 404, success |-> FALSE,
          error |-> "Stock not found or data unavailable"]

(***************************************************************************)
(* The server.  Each request runs on a thread of its own; a view's fan-out *)
(* runs one get_stock_data call per symbol on the workers of its pool.     *)
(* Every `with cache_lock:` block is one atomic step; the provider call    *)
(* lies between the lookup step and the store step of get_stock_data.      *)
(***************************************************************************)
\* market_status: datetime.weekday() has Monday = 0 and Sunday = 6.
DAY_NAMES == <<"Monday", "Tuesday", "Wednesday", "Thursday", "Friday",
               "Saturday", "Sunday">>

\* Mutant: the closing minute 15:30 is left out.
market_open_exclusive(weekday, hour, minute) ==
    /\ weekday < 5
    /\ \/ hour = 9 /\ minute >= 15
       \/ 9 < hour /\ hour < 15
       \/ hour = 15 /\ minute < 30

market_open(weekday, hour, minute) ==
    /\ weekday < 5
    /\ \/ hour = 9 /\ minute >= 15
       \/ 9 < hour /\ hour < 15
       \/ hour = 15 /\ minute <= 30

market_status(weekday, hour, minute) ==
    [isOpen |-> market_open(weekday, hour, minute),
     day |-> DAY_NAMES[weekday + 1],
     message |-> IF market_open(weekday, hour, minute)
                 THEN "Market is open" ELSE "Market is closed"]

VARIABLES
    now,      \* time.time(), in seconds
    cache,    \* the dict `cache`
    req,      \* per thread: the request it is handling
    routes,   \* the routes the clients of this run call
    last,     \* what the last step did: a lookup, a fetch, a response
    puts,     \* history: per key, the value and time of the last set_cached
    stored,   \* history: per symbol the quotes, and per view key the
              \* responses, stored less than CACHE_TTL ago
    input,    \* the input of a function checked on its own
    output,   \* what that function returned
    cache_lock,   \* the thread inside `with cache_lock`, or Unlocked
    position      \* where the locking is followed: each thread's place in
                  \* its handler or in get_stock_data

vars == <<now, cache, req, routes, last, puts, stored, input, output,
          cache_lock, position>>

server == <<now, cache, req, routes, last, puts, stored, cache_lock, position>>

\* threading.Lock(): not held.
Unlocked == 0

\* The threads whose locking is followed: thread 1 serves /api/stocks, the
\* workers are those of its pool, and one more thread serves /api/stock.
LockWorkers == 2..(1 + NumLockWorkers)
StockThread == 2 + NumLockWorkers
LockThreads == {1} \cup LockWorkers \cup {StockThread}

Parked == [pc |-> "idle", result |-> None]

LockAtRest ==
    /\ cache_lock = Unlocked
    /\ position = [t \in LockThreads |-> Parked]

Threads == 1..NumThreads

\* The steps by which the clock advances.
TickSteps == {59, 60}

Routes == {"indices", "stocks", "gainers", "losers", "search", "stock"}

\* Inputs of the routes with a URL parameter.
RequestSymbols == { <<"T", "C", "S">>, <<"T", "C", "S", ".", "B", "O">> }
SearchQueries == { <<"t", "c">>, <<"Z">> }

Idle == [op |-> "idle"]

\* What a step did: its kind, its thread and route, and its one access to
\* the cache (get_cached or set_cached, the key, the value got or set).
NoEvent == [type |-> "none", access |-> "none"]

Event(type, t, op, access, key, value) ==
    [type |-> type, thread |-> t, op |-> op, access |-> access, key |-> key,
     value |-> value]

Put(p, key, value, t) ==
    [k \in (DOMAIN p) \cup {key} |->
        IF k = key THEN [value |-> value, at |-> t] ELSE p[k]]

\* A get_stock_data call: not started, inside the provider call, or returned.
Queued == [pc |-> "queued", result |-> None]

Running(r) == {i \in 1..Len(r.call) : r.call[i].pc = "fetching"}

AllDone(r) == \A i \in 1..Len(r.call) : r.call[i].pc = "done"

\* A request with its get_stock_data calls: for a fan-out, the tasks that
\* fetch_stocks_concurrent(symbols) submits, one per symbol.
Request(op, arg, symbols) ==
    [op |-> op, arg |-> arg, symbols |-> symbols,
     call |-> [i \in 1..Len(symbols) |-> Queued], results |-> <<>>]

\* A finished request, as the client and the checks see it.
Finished(t, r, access, key, value, response) ==
    Event("response", t, r.op, access, key, value)
        @@ [arg |-> r.arg, symbols |-> r.symbols, call |-> r.call,
            results |-> r.results, response |-> response]

Symbols == {NSE_INDICES[i] : i \in 1..Len(NSE_INDICES)}
               \cup {NIFTY_50_STOCKS[i] : i \in 1..Len(NIFTY_50_STOCKS)}
               \cup {NormalizeSymbol(s) : s \in RequestSymbols}

\* What the history `stored` is kept for: the symbols and the view keys.
HistoryKeys == Symbols \cup {INDICES_KEY, STOCKS_KEY, GAINERS_KEY, LOSERS_KEY}

Init ==
    /\ now = 0
    /\ cache = <<>>
    /\ req = [t \in Threads |-> Idle]
    /\ routes \in {R \in SUBSET Routes : R # {} /\ Cardinality(R) <= MaxRoutes}
    /\ last = NoEvent
    /\ puts = <<>>
    /\ stored = [s \in HistoryKeys |-> {}]
    /\ LockAtRest
    /\ input = None
    /\ output = None

Tick ==
    \E d \in TickSteps :
        /\ now + d <= MaxTime
        /\ now' = now + d
        /\ stored' = [s \in HistoryKeys |->
                          {e \in stored[s] : now' - e.at < CACHE_TTL}]
        /\ last' = NoEvent
        /\ UNCHANGED <<cache, req, routes, puts>>
        /\ UNCHANGED <<input, output, cache_lock, position>>

\* Mutant: the view's cached response is ignored.
BeginView_refetch(t, view) ==
    /\ req[t] = Idle
    /\ view \in routes
    /\ req' = [req EXCEPT ![t] = Request(view, view, ViewSymbols(view))]
    /\ last' = Event("begin", t, view, "get", ViewKey(view), None)
    /\ UNCHANGED <<now, cache, routes, puts, stored>>
    /\ UNCHANGED <<input, output, cache_lock, position>>

\* get_indices, get_stocks, get_gainers, get_losers up to the fan-out.
BeginView(t, view) ==
    /\ req[t] = Idle
    /\ view \in routes
    /\ LET cached == get_cached(cache, ViewKey(view), now)
       IN  IF Truthy(cached)
           THEN /\ last' = Finished(t, Request(view, view, <<>>), "get",
                                     ViewKey(view), cached, cached)
                /\ UNCHANGED req
           ELSE /\ req' = [req EXCEPT ![t] =
                               Request(view, view, ViewSymbols(view))]
                /\ last' = Event("begin", t, view, "get", ViewKey(view), cached)
    /\ UNCHANGED <<now, cache, routes, puts, stored>>
    /\ UNCHANGED <<input, output, cache_lock, position>>

\* search_stocks up to the fan-out, or to its end when nothing matches.
BeginSearch(t, query) ==
    /\ req[t] = Idle
    /\ "search" \in routes
    /\ LET matching == matching_symbols(query)
           r == Request("search", query, matching)
       IN  IF matching # <<>>
           THEN /\ req' = [req EXCEPT ![t] = r]
                /\ last' = Event("begin", t, "search", "none", None, None)
           ELSE /\ last' = Finished(t, r, "none", None, None,
                                     SearchResponse(query, <<>>))
                /\ UNCHANGED req
    /\ UNCHANGED <<now, cache, routes, puts, stored>>
    /\ UNCHANGED <<input, output, cache_lock, position>>

\* get_single_stock up to its get_stock_data call.
BeginStock(t, symbol) ==
    /\ req[t] = Idle
    /\ "stock" \in routes
    /\ req' = [req EXCEPT ![t] =
                   Request("stock", symbol, <<NormalizeSymbol(symbol)>>)]
    /\ last' = Event("begin", t, "stock", "none", None, None)
    /\ UNCHANGED <<now, cache, routes, puts, stored>>
    /\ UNCHANGED <<input, output, cache_lock, position>>

\* Mutant: the lookup is skipped and every call goes to the provider.
Lookup_uncached(symbol) == [pc |-> "fetching", result |-> None]

\* get_stock_data, lines 86-88: the call after its lookup.
\* Mutant: an entry is returned whatever its age.
Lookup_stale(symbol) ==
    IF StockKey(symbol) \in DOMAIN cache
    THEN [pc |-> "done", result |-> cache[StockKey(symbol)].data]
    ELSE [pc |-> "fetching", result |-> None]

Lookup(symbol) ==
    LET cached == get_cached(cache, StockKey(symbol), now)
    IN  IF Truthy(cached) THEN [pc |-> "done", result |-> cached]
        ELSE [pc |-> "fetching", result |-> None]

\* get_stock_data, lines 90-123: the call after the provider answered out.
Fetched(symbol, out) == [pc |-> "done", result |-> Assemble(symbol, out)]

\* Mutant: the quote is returned but not stored.
StoreQuote_dropped(c, symbol, data) == c

\* Mutant: an absent result is cached like a quote.
StoreQuote_negative(c, symbol, data) ==
    set_cached(c, StockKey(symbol), data, now)

\* get_stock_data, lines 118-119: only a quote is stored.
StoreQuote(c, symbol, data) ==
    IF Truthy(data) THEN set_cached(c, StockKey(symbol), data, now) ELSE c

\* Mutant: a failed task discards what the batch has collected so far.
Collect_aborting(results, data) ==
    IF Truthy(data) THEN Append(results, data) ELSE <<>>

\* fetch_stocks_concurrent, lines 132-134: a completed future is collected.
Collect(results, data) ==
    IF Truthy(data) THEN Append(results, data) ELSE results

\* Call i of thread t's request starts (for a fan-out, on a free worker of
\* the pool) and does its cache lookup.
StartTask(t, i) ==
    /\ req[t] # Idle
    /\ i \in 1..Len(req[t].call)
    /\ req[t].call[i].pc = "queued"
    /\ req[t].op # "stock" => Cardinality(Running(req[t])) < MAX_WORKERS
    /\ LET c == Lookup(req[t].symbols[i])
       IN  /\ req' = [req EXCEPT ![t].call[i] = c,
                                 ![t].results =
                                     IF c.pc = "done" THEN Collect(@, c.result)
                                     ELSE @]
           /\ last' = Event("lookup", t, req[t].op, "get",
                             StockKey(req[t].symbols[i]), c.result)
                           @@ [symbol |-> req[t].symbols[i],
                               hit |-> c.pc = "done"]
    /\ UNCHANGED <<now, cache, routes, puts, stored>>
    /\ UNCHANGED <<input, output, cache_lock, position>>

\* The provider answers call i, which stores the quote and returns.
FinishTask(t, i, out) ==
    /\ req[t] # Idle
    /\ i \in 1..Len(req[t].call)
    /\ req[t].call[i].pc = "fetching"
    /\ LET symbol == req[t].symbols[i]
           c == Fetched(symbol, out)
       IN  /\ cache' = StoreQuote(cache, symbol, c.result)
           /\ req' = [req EXCEPT ![t].call[i] = c,
                                 ![t].results = Collect(@, c.result)]
           /\ last' = Event("fetch", t, req[t].op,
                             IF Truthy(c.result) THEN "set" ELSE "none",
                             StockKey(symbol), c.result)
                           @@ [symbol |-> symbol, out |-> out]
           /\ puts' = IF Truthy(c.result)
                      THEN Put(puts, StockKey(symbol), c.result, now)
                      ELSE puts
           /\ stored' = IF Truthy(c.result)
                        THEN [stored EXCEPT ![symbol] =
                                  @ \cup {[quote |-> c.result, at |-> now]}]
                        ELSE stored
    /\ UNCHANGED <<now, routes>>
    /\ UNCHANGED <<input, output, cache_lock, position>>

\* The pool is joined: the view is shaped, cached and returned.
RespondView(t) ==
    /\ req[t] # Idle
    /\ req[t].op \in Views
    /\ AllDone(req[t])
    /\ LET response == AggregateResponse(
                           ViewData(req[t].op, req[t].results, now), now)
       IN  /\ cache' = set_cached(cache, ViewKey(req[t].op), response, now)
           /\ last' = Finished(t, req[t], "set", ViewKey(req[t].op), response,
                                response)
           /\ puts' = Put(puts, ViewKey(req[t].op), response, now)
           /\ stored' = [stored EXCEPT ![ViewKey(req[t].op)] =
                              @ \cup {[quote |-> response, at |-> now]}]
    /\ req' = [req EXCEPT ![t] = Idle]
    /\ UNCHANGED <<now, routes>>
    /\ UNCHANGED <<input, output, cache_lock, position>>

RespondSearch(t) ==
    /\ req[t] # Idle
    /\ req[t].op = "search"
    /\ AllDone(req[t])
    /\ last' = Finished(t, req[t], "none", None, None,
                        SearchResponse(req[t].arg, req[t].results))
    /\ req' = [req EXCEPT ![t] = Idle]
    /\ UNCHANGED <<now, cache, routes, puts, stored>>
    /\ UNCHANGED <<input, output, cache_lock, position>>

\* get_single_stock, lines 257-267.
RespondStock(t) ==
    /\ req[t] # Idle
    /\ req[t].op = "stock"
    /\ AllDone(req[t])
    /\ last' = Finished(t, req[t], "none", None, None,
                        StockResponse(req[t].call[1].result, now))
    /\ req' = [req EXCEPT ![t] = Idle]
    /\ UNCHANGED <<now, cache, routes, puts, stored>>
    /\ UNCHANGED <<input, output, cache_lock, position>>

Next ==
    \/ Tick
    \/ \E t \in Threads, view \in Views : BeginView(t, view)
    \/ \E t \in Threads, query \in SearchQueries : BeginSearch(t, query)
    \/ \E t \in Threads, symbol \in RequestSymbols : BeginStock(t, symbol)
    \/ \E t \in Threads, i \in 1..Len(NIFTY_50_STOCKS) : StartTask(t, i)
    \/ \E t \in Threads, i \in 1..Len(NIFTY_50_STOCKS), out \in ProviderOutcomes :
           FinishTask(t, i, out)
    \/ \E t \in Threads : RespondView(t)
    \/ \E t \in Threads : RespondSearch(t)
    \/ \E t \in Threads : RespondStock(t)

Spec == Init /\ [][Next]_vars

(***************************************************************************)
(* Properties of the server.                                               *)
(***************************************************************************)
FreshPut(key) == key \in DOMAIN puts /\ now - puts[key].at < CACHE_TTL

\* C1: a get_cached(k) that follows set_cached(k, v), with no other
\* set_cached(k, _) in between, returns v while less than CACHE_TTL seconds
\* have passed since that put, and None from exactly CACHE_TTL seconds on.
C1_TtlCorrectness ==
    (last.access = "get" /\ last.key \in DOMAIN puts) =>
        IF now - puts[last.key].at < CACHE_TTL
        THEN last.value = puts[last.key].value
        ELSE last.value = None

C1_Witness ==
    /\ last.access = "get"
    /\ last.key \in DOMAIN puts
    /\ now - puts[last.key].at = CACHE_TTL
    /\ last.value = None

\* C2 as claimed: a get_stock_data(S) whose lookup comes less than CACHE_TTL
\* after a call stored and returned q returns that same q from the cache.
C2_Original ==
    last.type = "lookup" =>
        \A e \in stored[last.symbol] : last.hit /\ last.value = e.quote

\* C2 as amended: a get_stock_data(S) whose lookup comes less than CACHE_TTL
\* after a call stored and returned a quote returns, without a provider
\* call, the quote stored for S last: that quote, unless a concurrent call
\* that had missed the cache stored another one after it.
C2_CacheIdempotence ==
    (last.type = "lookup" /\ stored[last.symbol] # {}) =>
        /\ last.hit
        /\ last.value = puts[last.key].value
        /\ \E e \in stored[last.symbol] : e.quote = last.value
        /\ \A i \in 1..Len(req[last.thread].call) :
               req[last.thread].symbols[i] = last.symbol =>
                   req[last.thread].call[i].pc = "done"

C2_Witness ==
    /\ last.type = "lookup"
    /\ last.hit
    /\ now - puts[last.key].at = CACHE_TTL - 1
    /\ req[last.thread].call[1].pc = "done"

\* C3: when the provider returns empty history or raises, get_stock_data
\* returns None and leaves the cache as it was; and a lookup goes on to the
\* provider exactly when no entry stored less than CACHE_TTL ago is present.
C3_NoCacheOnMiss ==
    /\ [][(last'.type = "fetch" /\ last'.out.kind \in {"raise", "empty"}) =>
              (last'.value = None /\ cache' = cache)]_vars
    /\ [](last.type = "lookup" => (last.hit <=> FreshPut(last.key)))

C3_Witness ==
    /\ last.type = "lookup"
    /\ ~last.hit
    /\ now < CACHE_TTL
    /\ \E t \in Threads :
           /\ t # last.thread
           /\ req[t] # Idle
           /\ req[t].symbols[1] = last.symbol
           /\ req[t].call[1] = [pc |-> "done", result |-> None]

Succeeded(e) == {i \in 1..Len(e.call) : Truthy(e.call[i].result)}

FannedOut(e) ==
    e.type = "response" /\ e.op \in Views \cup {"search"} /\ e.access # "get"

\* C4: fetch_stocks_concurrent returns one quote for each symbol whose fetch
\* succeeded and none for the others, whichever fetches fail and in whatever
\* order the tasks complete.
C4_FanoutCompleteness ==
    FannedOut(last) =>
        /\ Len(last.results) = Cardinality(Succeeded(last))
        /\ \A i \in Succeeded(last) :
               /\ last.call[i].result.symbol = last.symbols[i]
               /\ \E j \in 1..Len(last.results) :
                      last.results[j] = last.call[i].result
        /\ \A j \in 1..Len(last.results) :
               \E i \in Succeeded(last) : last.results[j].symbol = last.symbols[i]

\* One of two symbols failed, and the one that succeeded was submitted second.
C4_Witness ==
    /\ FannedOut(last)
    /\ Len(last.call) = 2
    /\ ~Truthy(last.call[1].result)
    /\ Len(last.results) = 1
    /\ last.results[1].symbol = last.symbols[2]

SameQuote(d, q) ==
    /\ d.symbol = q.symbol
    /\ d.price = q.price
    /\ d.change = q.change
    /\ d.changePercent = q.changePercent

\* C7: every response of indices, stocks, gainers, losers and search has
\* success = true and count = len(data), and its data holds only quotes the
\* request fetched (or is the response a request stored before), whatever
\* the provider answered; a request whose calls have all returned can respond.
C7_AggregatesNeverFail ==
    /\ (last.type = "response" /\ last.op \in Views \cup {"search"}) =>
           /\ last.response.success = TRUE
           /\ last.response.count = Len(last.response.data)
           /\ IF last.access = "get"
              THEN last.response = puts[last.key].value
              ELSE \A k \in 1..Len(last.response.data) :
                       \E j \in 1..Len(last.results) :
                           SameQuote(last.response.data[k], last.results[j])
    /\ \A t \in Threads :
           (req[t] # Idle /\ req[t].op # "stock" /\ AllDone(req[t])) =>
               ENABLED (RespondView(t) \/ RespondSearch(t))

\* Every fetch of a view failed, and the view answered with an empty list.
C7_Witness ==
    /\ last.type = "response"
    /\ last.op \in Views
    /\ last.access = "set"
    /\ Len(last.call) >= 1
    /\ Succeeded(last) = {}
    /\ last.response.success = TRUE
    /\ last.response.data = <<>>

\* C10: get_single_stock answers 404 with success = false exactly when
\* get_stock_data returned None for the normalized symbol, and otherwise
\* answers success = true with the quote as data.
C10_NotFoundIffAbsent ==
    (last.type = "response" /\ last.op = "stock") =>
        IF last.call[1].result = None
        THEN last.response.status = 404 /\ last.response.success = FALSE
        ELSE /\ last.response.status = 200
             /\ last.response.success = TRUE
             /\ last.response.data = last.call[1].result
             /\ last.response.data.symbol = NormalizeSymbol(last.arg)

C10_Witness ==
    /\ last.type = "response"
    /\ last.op = "stock"
    /\ last.response.status = 404
    /\ last.call[1].result = None

(***************************************************************************)
(* The movers views on their own: get_gainers and get_losers shape the     *)
(* list one fan-out returned.  The list grows a quote at a time, in        *)
(* completion order; the i-th quote is of the i-th symbol to complete.     *)
(* The first MaxMixed quotes take any change of MoverCloses, the later     *)
(* ones a change of TailCloses, up to MaxFetched quotes: more than TOP_N   *)
(* on either side.                                                         *)
(***************************************************************************)
ServerAtRest ==
    /\ now = 0
    /\ cache = <<>>
    /\ req = [t \in Threads |-> Idle]
    /\ routes = {}
    /\ last = NoEvent
    /\ puts = <<>>
    /\ stored = [s \in HistoryKeys |-> {}]
    /\ LockAtRest

\* Closing prices against a previous close of 100000: changes of -1.5 %, -0.25 %, 0, +0.25 % and +1.5 %.
MoverCloses == {98500, 99750, 100000, 100250, 101500}
TailCloses == {99750, 101500}

SymbolNo(i) == [j \in 1..i |-> "X"]

MoversInit ==
    /\ ServerAtRest
    /\ input = <<>>
    /\ output = None

TaskCompletes ==
    /\ Len(input) < MaxFetched
    /\ \E close \in (IF Len(input) < MaxMixed THEN MoverCloses ELSE TailCloses) :
           input' = Collect(input, Assemble(SymbolNo(Len(input) + 1),
                                            Data(close, Num(100000))))
    /\ output' = None
    /\ UNCHANGED server

BuildMovers ==
    /\ output = None
    /\ output' = [gainers |-> GainersData(input), losers |-> LosersData(input)]
    /\ UNCHANGED input
    /\ UNCHANGED server

MoversNext == TaskCompletes \/ BuildMovers

SpecMovers == MoversInit /\ [][MoversNext]_vars

InList(q, list) == \E i \in 1..Len(list) : list[i] = q

\* C5: every gainer has changePercent > 0 and the gainers are in descending
\* order; every loser has changePercent < 0 and the losers are in ascending
\* order; no quote is in both lists; each list has at most 10 entries, all
\* of them fetched, and a quote of its side that it leaves out is no more
\* extreme than its tenth entry.
C5_MoversPartition ==
    output # None =>
        LET G == output.gainers
            L == output.losers
        IN  /\ \A i \in 1..Len(G) : G[i].changePercent > 0 /\ InList(G[i], input)
            /\ \A i \in 1..Len(L) : L[i].changePercent < 0 /\ InList(L[i], input)
            /\ \A i, j \in 1..Len(G) :
                   i < j => G[i].changePercent >= G[j].changePercent
            /\ \A i, j \in 1..Len(L) :
                   i < j => L[i].changePercent <= L[j].changePercent
            /\ \A i \in 1..Len(G), j \in 1..Len(L) : G[i].symbol # L[j].symbol
            /\ Len(G) <= 10 /\ Len(L) <= 10
            /\ \A k \in 1..Len(input) :
                   /\ (input[k].changePercent > 0 /\ ~InList(input[k], G)) =>
                          (Len(G) = 10 /\
                              input[k].changePercent <= G[10].changePercent)
                   /\ (input[k].changePercent < 0 /\ ~InList(input[k], L)) =>
                          (Len(L) = 10 /\
                              input[k].changePercent >= L[10].changePercent)

\* Eleven gainers of two different changes: one is cut.
C5_Witness ==
    /\ output # None
    /\ Len(output.gainers) = 10
    /\ Len(SelectSeq(input, LAMBDA x : x.changePercent > 0)) = 11
    /\ output.gainers[1].changePercent > output.gainers[10].changePercent
    /\ input[1].changePercent < input[2].changePercent

(***************************************************************************)
(* Two runs of the views over the same fetched quotes.  The provider's     *)
(* answer per symbol is fixed for both runs; each run's tasks complete in  *)
(* an order of its own, and each view is then shaped from both lists.      *)
(***************************************************************************)
OrderSymbols == <<NSEI, TCS_NS, ITC_NS>>

\* A failure and changes of -7 %, +5 % and +10 % against 100000.
OrderOutcomes ==
    { Raises, Data(93000, Num(100000)), Data(105000, Num(100000)),
      Data(110000, Num(100000)) }

Tasks == 1..Len(OrderSymbols)

OrderInit ==
    /\ ServerAtRest
    /\ \E market \in [Tasks -> OrderOutcomes] :
           input = [market |-> market,
                    doneA |-> {}, a |-> <<>>, doneB |-> {}, b |-> <<>>]
    /\ output = None

Quote(i) == Assemble(OrderSymbols[i], input.market[i])

CompletesA(i) ==
    /\ i \notin input.doneA
    /\ input' = [input EXCEPT !.doneA = @ \cup {i}, !.a = Collect(@, Quote(i))]
    /\ UNCHANGED output
    /\ UNCHANGED server

CompletesB(i) ==
    /\ i \notin input.doneB
    /\ input' = [input EXCEPT !.doneB = @ \cup {i}, !.b = Collect(@, Quote(i))]
    /\ UNCHANGED output
    /\ UNCHANGED server

ShapeBoth ==
    /\ input.doneA = Tasks
    /\ input.doneB = Tasks
    /\ output = None
    /\ output' = [view \in Views |-> [a |-> ViewData(view, input.a, now),
                                      b |-> ViewData(view, input.b, now)]]
    /\ UNCHANGED input
    /\ UNCHANGED server

OrderNext ==
    \/ \E i \in Tasks : CompletesA(i)
    \/ \E i \in Tasks : CompletesB(i)
    \/ ShapeBoth

SpecOrder == OrderInit /\ [][OrderNext]_vars

\* C6 as claimed: two runs of a view over the same fetched quotes give the
\* same data order, whatever the completion orders.
C6_Original ==
    output # None => \A view \in Views : output[view].a = output[view].b

ViewSortKey(view, x) ==
    IF view = "stocks" THEN Abs(x.changePercent) ELSE x.changePercent

DistinctKeys(view, data) ==
    \A i, j \in 1..Len(data) :
        i # j => ViewSortKey(view, data[i]) # ViewSortKey(view, data[j])

SymbolsOf(data) == [i \in 1..Len(data) |-> data[i].symbol]

\* C6 as amended: two runs of stocks, gainers or losers over the same
\* fetched quotes give the same data order whenever the view's sort keys of
\* the fetched quotes are pairwise different (quotes with equal keys keep
\* their completion order); the indices view does not sort and lists its
\* entries in completion order.
C6_OrderBySortKey ==
    output # None =>
        /\ \A view \in {"stocks", "gainers", "losers"} :
               DistinctKeys(view, input.a) =>
                   output[view].a = output[view].b
        /\ SymbolsOf(output["indices"].a) = SymbolsOf(input.a)
        /\ SymbolsOf(output["indices"].b) = SymbolsOf(input.b)

\* Three quotes of different |change| completed in two different orders.
C6_Witness ==
    /\ output # None
    /\ Len(input.a) = 3
    /\ input.a # input.b
    /\ DistinctKeys("stocks", input.a)
    /\ output["stocks"].a = output["stocks"].b
    /\ output["stocks"].a # input.a

(***************************************************************************)
(* Symbol normalisation of get_single_stock, over all short symbols of a   *)
(* small alphabet.  The symbol handed to get_stock_data is recorded, and   *)
(* a following request for that symbol records what it hands on in turn.   *)
(***************************************************************************)
SymbolChars == {"T", ".", "N", "S", "B", "O", "s"}

SymbolInputs ==
    UNION { [1..n -> SymbolChars] : n \in 0..MaxSymbolLen }

SymbolInit ==
    /\ ServerAtRest
    /\ input \in SymbolInputs
    /\ output = <<>>

\* A request for `input`: the symbol passed to get_stock_data.
Normalize ==
    /\ output = <<>>
    /\ output' = <<NormalizeSymbol(input)>>
    /\ UNCHANGED input
    /\ UNCHANGED server

\* A request for the symbol that was passed upstream.
Renormalize ==
    /\ Len(output) = 1
    /\ output' = Append(output, NormalizeSymbol(output[1]))
    /\ UNCHANGED input
    /\ UNCHANGED server

SymbolNext ==
    \/ Normalize
    \/ Renormalize

SpecSymbol == SymbolInit /\ [][SymbolNext]_vars

Suffixed(s) ==
    /\ Len(s) >= 3
    /\ s[Len(s) - 2] = "."
    /\ \/ s[Len(s) - 1] = "N" /\ s[Len(s)] = "S"
       \/ s[Len(s) - 1] = "B" /\ s[Len(s)] = "O"

\* C9: the symbol passed upstream is the request's symbol followed by ".NS"
\* when that symbol ends with neither ".NS" nor ".BO", and the request's
\* symbol itself when it ends with either; it always ends with one of the
\* two suffixes, and normalising it again changes nothing.
C9_Normalization ==
    output # <<>> =>
        /\ Suffixed(input) => output[1] = input
        /\ ~Suffixed(input) =>
               /\ Len(output[1]) = Len(input) + 3
               /\ \A i \in 1..Len(input) : output[1][i] = input[i]
               /\ output[1][Len(input) + 1] = "."
               /\ output[1][Len(input) + 2] = "N"
               /\ output[1][Len(input) + 3] = "S"
        /\ Suffixed(output[1])
        /\ Len(output) = 2 => output[2] = output[1]

\* "T.BO" was left alone, twice.
C9_Witness ==
    /\ input = <<"T", ".", "B", "O">>
    /\ output = <<input, input>>

(***************************************************************************)
(* The search route over every query of one or two characters, one request *)
(* at a time, on a server whose clients also call the stocks view.          *)
(***************************************************************************)
QueryChars == {"t", "C", "i", "s", ".", "Z"}

WideQueries == UNION { [1..n -> QueryChars] : n \in 1..MaxQueryLen }

SearchInit ==
    /\ now = 0
    /\ cache = <<>>
    /\ req = [t \in Threads |-> Idle]
    /\ routes = {"search", "stocks"}
    /\ last = NoEvent
    /\ puts = <<>>
    /\ stored = [s \in HistoryKeys |-> {}]
    /\ LockAtRest
    /\ input = None
    /\ output = None

SearchNext ==
    \/ Tick
    \/ BeginView(1, "stocks")
    \/ \E query \in WideQueries : BeginSearch(1, query)
    \/ \E i \in 1..Len(NIFTY_50_STOCKS) : StartTask(1, i)
    \/ \E i \in 1..Len(NIFTY_50_STOCKS), out \in ProviderOutcomes :
           FinishTask(1, i, out)
    \/ RespondView(1)
    \/ RespondSearch(1)

SpecSearch == SearchInit /\ [][SearchNext]_vars

SameLetter(a, b) ==
    \/ a = b
    \/ \E k \in 1..Len(LowerCase) : {a, b} = {LowerCase[k], UpperCase[k]}

\* q occurs in s, letters compared without regard to case.
IsMatch(s, q) ==
    \E off \in 0..(Len(s) - Len(q)) :
        \A j \in 1..Len(q) : SameLetter(s[off + j], q[j])

ResponseKeys == {ViewKey(view) : view \in Views}

BySearch(e) == e.type # "none" /\ e.op = "search"

\* C8: a search fetches exactly the master-list symbols that contain the
\* query, case ignored, each once; a query that matches nothing is answered
\* with an empty data array and count 0 and no task; no step of a search
\* gets or sets a response key, and none changes the cache under one.
C8_SearchFetchesMatches ==
    /\ [](BySearch(last) /\ last.type \in {"lookup", "fetch"} =>
              /\ IsMatch(last.symbol, req[last.thread].arg)
              /\ \E i \in 1..Len(NIFTY_50_STOCKS) :
                     last.symbol = NIFTY_50_STOCKS[i]
              /\ last.key = StockKey(last.symbol))
    /\ [](BySearch(last) /\ last.type = "response" =>
              /\ \A i \in 1..Len(NIFTY_50_STOCKS) :
                     IsMatch(NIFTY_50_STOCKS[i], last.arg)
                         <=> \E j \in 1..Len(last.symbols) :
                                 last.symbols[j] = NIFTY_50_STOCKS[i]
              /\ \A j \in 1..Len(last.symbols) :
                     /\ \E i \in 1..Len(NIFTY_50_STOCKS) :
                            last.symbols[j] = NIFTY_50_STOCKS[i]
                     /\ \A k \in 1..Len(last.symbols) :
                            last.symbols[k] = last.symbols[j] => k = j
                     /\ last.call[j].pc = "done"
              /\ Len(last.call) = Len(last.symbols)
              /\ last.response.count = Len(last.response.data)
              /\ (\A i \in 1..Len(NIFTY_50_STOCKS) :
                      ~IsMatch(NIFTY_50_STOCKS[i], last.arg))
                     => /\ last.response.data = <<>>
                        /\ last.response.count = 0
                        /\ last.call = <<>>)
    /\ [](BySearch(last) => ~(last.access # "none" /\ last.key \in ResponseKeys))
    /\ [][BySearch(last') =>
              \A k \in ResponseKeys :
                  /\ k \in DOMAIN cache <=> k \in DOMAIN cache'
                  /\ k \in DOMAIN cache => cache'[k] = cache[k]]_vars

\* "cs" found TCS.NS alone, fetched it, and left the cached stocks response.
C8_Witness ==
    /\ BySearch(last)
    /\ last.type = "response"
    /\ last.arg = <<"C", "s">>
    /\ last.symbols = <<TCS_NS>>
    /\ last.response.count = 1
    /\ STOCKS_KEY \in DOMAIN cache

(***************************************************************************)
(* market_status at every minute of the IST week.                          *)
(***************************************************************************)
LocalTimes == [weekday : 0..6, hour : 0..23, minute : 0..59]

ClockInit ==
    /\ ServerAtRest
    /\ input \in LocalTimes
    /\ output = None

\* A request to /api/market-status at local time `input`.
MarketStatus ==
    /\ output = None
    /\ output' = market_status(input.weekday, input.hour, input.minute)
    /\ UNCHANGED input
    /\ UNCHANGED server

ClockNext == MarketStatus

SpecClock == ClockInit /\ [][ClockNext]_vars

MinuteOfDay(lt) == lt.hour * 60 + lt.minute

At(lt, weekday, hour, minute) ==
    lt.weekday = weekday /\ lt.hour = hour /\ lt.minute = minute

\* C11: isOpen is true exactly on Monday to Friday from 09:15 to 15:30, both
\* minutes included; Saturday 10:00, Monday 09:14 and Monday 15:31 are
\* closed, Monday 09:15 and Monday 15:30 are open.
C11_MarketHours ==
    output # None =>
        /\ output.isOpen <=>
               /\ input.weekday \in 0..4
               /\ MinuteOfDay(input) >= 9 * 60 + 15
               /\ MinuteOfDay(input) <= 15 * 60 + 30
        /\ At(input, 5, 10, 0) => ~output.isOpen
        /\ At(input, 0, 9, 14) => ~output.isOpen
        /\ At(input, 0, 9, 15) => output.isOpen
        /\ At(input, 0, 15, 30) => output.isOpen
        /\ At(input, 0, 15, 31) => ~output.isOpen

\* Monday 15:30 was reported open.
C11_Witness ==
    /\ output # None
    /\ At(input, 0, 15, 30)
    /\ output.isOpen
    /\ output.day = "Monday"

(***************************************************************************)
(* One fetch_stocks_concurrent call over any number of symbols: the        *)
(* submit loop, the workers of the pool taking and finishing tasks, and    *)
(* the return after the pool is joined.  What the tasks return is left     *)
(* out; `submitted` counts the executor.submit calls.                      *)
(***************************************************************************)
PoolInit ==
    /\ ServerAtRest
    /\ \E n \in 0..MaxPoolSymbols :
           input = [symbols |-> [i \in 1..n |-> SymbolNo(i)], call |-> <<>>,
                    submitted |-> 0]
    /\ output = None

\* Mutant: a pool without a cap.
WorkerFree_unbounded(r) == TRUE

\* ThreadPoolExecutor(max_workers=10): a worker is free to take a task.
WorkerFree(r) == Cardinality(Running(r)) < MAX_WORKERS

\* Mutant: the call returns on the first completed future.
Joined_first(r) ==
    /\ Len(r.call) = Len(r.symbols)
    /\ r.call # <<>> => \E i \in 1..Len(r.call) : r.call[i].pc = "done"

\* Every symbol was submitted and as_completed has yielded every future.
Joined(r) == Len(r.call) = Len(r.symbols) /\ AllDone(r)

\* executor.submit(get_stock_data, symbol) for the next symbol.
PoolSubmit ==
    /\ output = None
    /\ Len(input.call) < Len(input.symbols)
    /\ input' = [input EXCEPT !.call = Append(@, Queued),
                              !.submitted = @ + 1]
    /\ UNCHANGED output
    /\ UNCHANGED server

\* A worker takes task i and enters get_stock_data.
PoolStart(i) ==
    /\ i \in 1..Len(input.call)
    /\ input.call[i].pc = "queued"
    /\ WorkerFree(input)
    /\ input' = [input EXCEPT !.call[i].pc = "fetching"]
    /\ UNCHANGED output
    /\ UNCHANGED server

\* get_stock_data of task i returns, with a quote or with None.
PoolFinish(i) ==
    /\ i \in 1..Len(input.call)
    /\ input.call[i].pc = "fetching"
    /\ input' = [input EXCEPT !.call[i].pc = "done"]
    /\ UNCHANGED output
    /\ UNCHANGED server

\* fetch_stocks_concurrent returns.
PoolReturn ==
    /\ output = None
    /\ Joined(input)
    /\ output' = [returned |-> TRUE, call |-> input.call]
    /\ UNCHANGED input
    /\ UNCHANGED server

PoolNext ==
    \/ PoolSubmit
    \/ \E i \in 1..MaxPoolSymbols : PoolStart(i)
    \/ \E i \in 1..MaxPoolSymbols : PoolFinish(i)
    \/ PoolReturn

SpecPool == PoolInit /\ [][PoolNext]_vars

\* C12: at most 10 tasks of a call are executing at any moment, however
\* many symbols it was given, and it submits exactly one task per symbol:
\* never more tasks than symbols, and one per symbol once it returns.
C12_PoolBound ==
    /\ Cardinality({i \in 1..Len(input.call) :
                        input.call[i].pc = "fetching"}) <= 10
    /\ input.submitted = Len(input.call)
    /\ input.submitted <= Len(input.symbols)
    /\ output # None => input.submitted = Len(input.symbols)

\* Eleven symbols: ten tasks are executing and the eleventh waits.
C12_Witness ==
    /\ Len(input.symbols) = 11
    /\ Cardinality({i \in 1..Len(input.call) :
                        input.call[i].pc = "fetching"}) = 10
    /\ \E i \in 1..Len(input.call) : input.call[i].pc = "queued"

\* The same call when the submitting thread and the workers keep running
\* and every provider call returns or raises.
SpecPoolFair ==
    /\ SpecPool
    /\ WF_vars(PoolSubmit)
    /\ WF_vars(\E i \in 1..MaxPoolSymbols : PoolStart(i))
    /\ WF_vars(\E i \in 1..MaxPoolSymbols : PoolFinish(i))
    /\ WF_vars(PoolReturn)

\* C16: when fetch_stocks_concurrent returns, one task per symbol was
\* dispatched and every one of them has completed (none queued, none
\* running); and when every provider call returns or raises, the call
\* returns.
C16_JoinsAllTasks ==
    /\ [](output # None =>
              /\ Len(input.call) = Len(input.symbols)
              /\ \A i \in 1..Len(input.call) : input.call[i].pc = "done"
              /\ output.call = input.call)
    /\ <>(output # None)

\* A call over eleven symbols has returned.
C16_Witness ==
    /\ output # None
    /\ Len(input.symbols) = 11
    /\ \A i \in 1..11 : output.call[i].pc = "done"

(***************************************************************************)
(* get_stock_data on a cache miss, for a provider whose history is not     *)
(* empty and whose info holds, lacks or nulls previousClose.               *)
(***************************************************************************)
QuoteCloses == {k * 7501 : k \in 0..MaxCloseSteps}

PrevCloses == {Num(0), Num(100000), Null, Missing}

QuoteInit ==
    /\ ServerAtRest
    /\ \E close \in QuoteCloses, prev \in PrevCloses : input = Data(close, prev)
    /\ output = <<>>

\* get_stock_data(TCS.NS) with nothing cached: what it returns.
GetStockData ==
    /\ output = <<>>
    /\ output' = <<Fetched(TCS_NS, input).result>>
    /\ UNCHANGED input
    /\ UNCHANGED server

QuoteNext == GetStockData

SpecQuote == QuoteInit /\ [][QuoteNext]_vars

Falsy(prev) ==
    \/ prev.tag \in {"null", "missing"}
    \/ prev.tag = "num" /\ prev.val = 0

\* C13: when the provider succeeds with a previousClose that is zero, null
\* or missing, get_stock_data returns a quote, and its changePercent is 0.
C13_FalsyPreviousClose ==
    (output # <<>> /\ Falsy(input.previousClose)) =>
        /\ output[1] # None
        /\ output[1].changePercent = 0

(***************************************************************************)
(* The stocks view over two cache lifetimes, with a provider whose price   *)
(* for a symbol tells the time at which it answered: the close at time t   *)
(* is 100000 + 10 * t against a previous close of 100000, which gives the  *)
(* quote the price 10000 + t (in hundredths).                              *)
(***************************************************************************)
PricedAt(t) == Data(100000 + 10 * t, Num(100000))

ObtainedAt(quote) == quote.price - 10000

LateInit ==
    /\ now = 0
    /\ cache = <<>>
    /\ req = [t \in Threads |-> Idle]
    /\ routes = {"stocks"}
    /\ last = NoEvent
    /\ puts = <<>>
    /\ stored = [s \in HistoryKeys |-> {}]
    /\ LockAtRest
    /\ input = None
    /\ output = None

LateTick ==
    \E d \in TickSteps :
        /\ now + d <= MaxLateTime
        /\ now' = now + d
        /\ stored' = [s \in HistoryKeys |->
                          {e \in stored[s] : now' - e.at < CACHE_TTL}]
        /\ last' = NoEvent
        /\ UNCHANGED <<cache, req, routes, puts>>
        /\ UNCHANGED <<input, output, cache_lock, position>>

LateNext ==
    \/ LateTick
    \/ \E t \in Threads : BeginView(t, "stocks")
    \/ \E t \in Threads, i \in 1..Len(NIFTY_50_STOCKS) : StartTask(t, i)
    \/ \E t \in Threads, i \in 1..Len(NIFTY_50_STOCKS),
          out \in {Raises, PricedAt(now)} : FinishTask(t, i, out)
    \/ \E t \in Threads : RespondView(t)

SpecLate == LateInit /\ [][LateNext]_vars

Served(e) == e.type = "response" /\ e.op \in Views

\* C14 as claimed: every quote of an aggregate response that is served was
\* obtained from the provider less than 2 x CACHE_TTL seconds earlier.
C14_Original ==
    Served(last) =>
        \A i \in 1..Len(last.response.data) :
            now - ObtainedAt(last.response.data[i]) < 2 * CACHE_TTL

\* C14 as amended: a response that is served was built less than CACHE_TTL
\* seconds earlier; it holds only quotes that the calls of the request that
\* built it returned; and a quote that a call finds in the cache was
\* obtained less than CACHE_TTL seconds before that lookup, one that it
\* fetches at the time of the fetch.  The time between the lookup and the
\* construction of the response, which the bound leaves out, is the
\* provider's latency.
C14_StalenessByParts ==
    /\ (Served(last) /\ last.access = "get") =>
           /\ now - last.response.timestamp < CACHE_TTL
           /\ now - last.response.timestamp >= 0
    /\ (Served(last) /\ last.access = "set") =>
           /\ last.response.timestamp = now
           /\ \A i \in 1..Len(last.response.data) :
                  \E j \in 1..Len(last.call) :
                      last.call[j].result = last.response.data[i]
    /\ (last.type = "lookup" /\ last.hit) =>
           /\ now - ObtainedAt(last.value) < CACHE_TTL
           /\ now - ObtainedAt(last.value) >= 0
    /\ (last.type = "fetch" /\ Truthy(last.value)) =>
           ObtainedAt(last.value) = now

\* A cached response is served with a quote that is 2 x CACHE_TTL old.
C14_Witness ==
    /\ Served(last)
    /\ last.access = "get"
    /\ \E i \in 1..Len(last.response.data) :
           now - ObtainedAt(last.response.data[i]) >= 2 * CACHE_TTL

(***************************************************************************)
(* The keys of the cache.                                                  *)
(***************************************************************************)
ConfiguredKeys ==
    {StockKey(NSE_INDICES[i]) : i \in 1..Len(NSE_INDICES)}
        \cup {StockKey(NIFTY_50_STOCKS[i]) : i \in 1..Len(NIFTY_50_STOCKS)}
        \cup {INDICES_KEY, STOCKS_KEY, GAINERS_KEY, LOSERS_KEY}

\* C15: every key of the cache is "stock_" + s for an index symbol or a
\* master-list symbol s, or one of the four response keys.
C15_KeysFromConfiguration == DOMAIN cache \subseteq ConfiguredKeys

(***************************************************************************)
(* The response caches of the views, on the server of Spec.                *)
(***************************************************************************)
ViewLookup(e) ==
    e.type \in {"begin", "response"} /\ e.op \in Views /\ e.access = "get"

\* C17 as claimed: a view request whose cache lookup comes less than
\* CACHE_TTL after a request stored the view's response returns that stored
\* response and submits no task.
C17_Original ==
    ViewLookup(last) =>
        \A e \in stored[last.key] :
            /\ last.type = "response"
            /\ last.response = e.quote
            /\ last.call = <<>>

\* C17 as amended: a view request whose cache lookup comes less than
\* CACHE_TTL after a request stored the view's response returns, as stored,
\* the response stored for the view last (that response, unless a request
\* that had missed the cache before stored its own after it), submits no
\* task and calls no provider, and leaves the cache and the requests in
\* progress as they were; an empty or partial response is served like any
\* other.
C17_CachedViewVerbatim ==
    /\ []((ViewLookup(last) /\ stored[last.key] # {}) =>
              /\ FreshPut(last.key)
              /\ last.type = "response"
              /\ last.response = puts[last.key].value
              /\ \E e \in stored[last.key] : e.quote = last.response
              /\ last.symbols = <<>>
              /\ last.call = <<>>)
    /\ [][(ViewLookup(last') /\ FreshPut(last'.key)) =>
              /\ cache' = cache
              /\ req' = req
              /\ puts' = puts]_vars

\* A response built while every fetch failed is served from the cache, 59
\* seconds after it was stored.
C17_Witness ==
    /\ ViewLookup(last)
    /\ last.type = "response"
    /\ last.response.data = <<>>
    /\ last.response.count = 0
    /\ now - puts[last.key].at = 59

(***************************************************************************)
(* cache_lock.  Thread 1 serves /api/stocks: get_cached of the response    *)
(* key, the fan-out, set_cached of the response.  The workers of its pool  *)
(* and the thread that serves /api/stock run get_stock_data: get_cached of *)
(* the stock key, the provider call, the assembly of the quote,            *)
(* set_cached.  Entering `with cache_lock`, the map access inside it, the  *)
(* provider call and the assembly are steps of their own.                  *)
(***************************************************************************)
LockSymbol(w) == NIFTY_50_STOCKS[((w - 2) % Len(NIFTY_50_STOCKS)) + 1]

LockKey(t) == IF t = 1 THEN STOCKS_KEY ELSE StockKey(LockSymbol(t))

At_(t, pcs) == position[t].pc \in pcs

Goto(t, pc, result) ==
    position' = [position EXCEPT ![t] = [pc |-> pc, result |-> result]]

LockInit ==
    /\ ServerAtRest
    /\ input = None
    /\ output = None

\* Mutant: `with cache_lock` is entered without waiting for the lock.
CanAcquire_always == TRUE

\* cache_lock.acquire() returns only when no thread holds the lock.
CanAcquire == cache_lock = Unlocked

\* A request for /api/stocks arrives: get_stocks calls get_cached.
HandlerCalls ==
    /\ At_(1, {"idle"})
    /\ Goto(1, "get_wait", None)
    /\ UNCHANGED <<now, cache, req, routes, last, puts, stored, input, output,
                   cache_lock>>

\* `with cache_lock:` of get_cached or of set_cached is entered.
Acquire(t) ==
    /\ At_(t, {"get_wait", "set_wait"})
    /\ CanAcquire
    /\ cache_lock' = t
    /\ Goto(t, IF At_(t, {"get_wait"}) THEN "get_in" ELSE "set_in",
            position[t].result)
    /\ UNCHANGED <<now, cache, req, routes, last, puts, stored, input, output>>

\* get_cached, lines 47-51, and the end of its `with`: on a hit the caller
\* returns the value, on a miss the handler goes on to the fan-out and the
\* worker to the provider.
LockedGet(t) ==
    /\ At_(t, {"get_in"})
    /\ cache_lock' = Unlocked
    /\ LET cached == get_cached(cache, LockKey(t), now)
       IN  IF Truthy(cached)
           THEN Goto(t, IF t = 1 THEN "idle" ELSE "done",
                     IF t = 1 THEN None ELSE cached)
           ELSE Goto(t, IF t = 1 THEN "fanout" ELSE "provider", None)
    /\ UNCHANGED <<now, cache, req, routes, last, puts, stored, input, output>>

\* fetch_stocks_concurrent submits a task to every worker.
Dispatch ==
    /\ At_(1, {"fanout"})
    /\ position' = [t \in LockThreads |->
                        IF t = 1 THEN [pc |-> "join", result |-> None]
                        ELSE IF t \in LockWorkers
                        THEN [pc |-> "get_wait", result |-> None]
                        ELSE position[t]]
    /\ UNCHANGED <<now, cache, req, routes, last, puts, stored, input, output,
                   cache_lock>>

\* The provider call of worker w returns or raises.
ProviderAnswers(w, out) ==
    /\ w \in LockThreads \ {1}
    /\ At_(w, {"provider"})
    /\ IF out.kind = "data" THEN Goto(w, "assemble", out)
       ELSE Goto(w, "done", None)
    /\ UNCHANGED <<now, cache, req, routes, last, puts, stored, input, output,
                   cache_lock>>

\* Lines 98-116: the quote is built, and set_cached is called with it.
Assembles(w) ==
    /\ w \in LockThreads \ {1}
    /\ At_(w, {"assemble"})
    /\ LET result == Assemble(LockSymbol(w), position[w].result)
       IN  IF Truthy(result) THEN Goto(w, "set_wait", result)
           ELSE Goto(w, "done", None)
    /\ UNCHANGED <<now, cache, req, routes, last, puts, stored, input, output,
                   cache_lock>>

\* set_cached, line 57, and the end of its `with`.
LockedSet(t) ==
    /\ At_(t, {"set_in"})
    /\ cache_lock' = Unlocked
    /\ cache' = set_cached(cache, LockKey(t), position[t].result, now)
    /\ Goto(t, IF t = 1 THEN "idle" ELSE "done",
            IF t = 1 THEN None ELSE position[t].result)
    /\ UNCHANGED <<now, req, routes, last, puts, stored, input, output>>

\* Every task has returned: the pool is joined, the response is built and
\* set_cached is called with it.
Join ==
    /\ At_(1, {"join"})
    /\ \A w \in LockWorkers : At_(w, {"done"})
    /\ LET returned == [i \in 1..NumLockWorkers |-> position[i + 1].result]
           results == SelectSeq(returned, Truthy)
       IN  position' = [t \in LockThreads |->
                            IF t = 1
                            THEN [pc |-> "set_wait",
                                  result |-> AggregateResponse(
                                                 StocksData(results), now)]
                            ELSE IF t \in LockWorkers THEN Parked
                            ELSE position[t]]
    /\ UNCHANGED <<now, cache, req, routes, last, puts, stored, input, output,
                   cache_lock>>

\* A request for /api/stock/<symbol> arrives: get_stock_data is called.
StockCalls ==
    /\ At_(StockThread, {"idle"})
    /\ Goto(StockThread, "get_wait", None)
    /\ UNCHANGED <<now, cache, req, routes, last, puts, stored, input, output,
                   cache_lock>>

\* get_single_stock returns what get_stock_data gave it.
StockReturns ==
    /\ At_(StockThread, {"done"})
    /\ Goto(StockThread, "idle", None)
    /\ UNCHANGED <<now, cache, req, routes, last, puts, stored, input, output,
                   cache_lock>>

LockProgress ==
    \/ \E t \in LockThreads : Acquire(t)
    \/ \E t \in LockThreads : LockedGet(t)
    \/ Dispatch
    \/ \E w \in LockThreads, out \in ProviderOutcomes : ProviderAnswers(w, out)
    \/ \E w \in LockThreads : Assembles(w)
    \/ \E t \in LockThreads : LockedSet(t)
    \/ Join
    \/ StockReturns

LockNext ==
    \/ Tick
    \/ HandlerCalls
    \/ StockCalls
    \/ LockProgress

SpecLock == LockInit /\ [][LockNext]_vars

InSection(t) == position[t].pc = "get_in" \/ position[t].pc = "set_in"

\* C18: at most one thread is inside a critical section of the cache, and
\* it is the holder of cache_lock; a thread in its provider call, in the
\* assembly of its quote or in the fan-out does not hold the lock; and
\* whenever some thread is at work, some thread can take a step: a thread
\* that waits for the lock finds it free or held by a thread that can
\* leave its critical section.
C18_LockDiscipline ==
    /\ \A t, u \in LockThreads : (InSection(t) /\ InSection(u)) => t = u
    /\ \A t \in LockThreads : InSection(t) <=> cache_lock = t
    /\ \A t \in LockThreads :
           position[t].pc \in {"provider", "assemble", "fanout", "join"}
               => cache_lock # t
    /\ (\E t \in LockThreads : position[t].pc # "idle") => ENABLED LockProgress
    /\ (\E t \in LockThreads : position[t].pc \in {"get_wait", "set_wait"})
           => \/ cache_lock = Unlocked
              \/ ENABLED (LockedGet(cache_lock) \/ LockedSet(cache_lock))

\* A worker is in its provider call and the handler in the join while
\* another thread is inside set_cached and a third waits for the lock.
C18_Witness ==
    /\ position[1].pc = "join"
    /\ \E w \in LockWorkers : position[w].pc = "provider"
    /\ \E t \in LockThreads : position[t].pc = "set_in" /\ cache_lock = t
    /\ \E t \in LockThreads : position[t].pc = "get_wait"

(***************************************************************************)
(* Provider calls per symbol, on the server of Spec.                       *)
(***************************************************************************)
FetchingIn(rq, symbol) ==
    {<<t, i>> \in Threads \X (1..Len(NIFTY_50_STOCKS)) :
        /\ rq[t] # Idle
        /\ i \in 1..Len(rq[t].call)
        /\ rq[t].symbols[i] = symbol
        /\ rq[t].call[i].pc = "fetching"}

Fetching(symbol) == FetchingIn(req, symbol)

\* C19 as claimed: a provider call for a symbol succeeds only when none
\* succeeded for it less than CACHE_TTL before, and no two get_stock_data
\* calls are in the provider for the same symbol at once.
C19_Original ==
    /\ [][(last'.type = "fetch" /\ Truthy(last'.value)) =>
              stored[last'.symbol] = {}]_vars
    /\ [](\A s \in Symbols : Cardinality(Fetching(s)) <= 1)

\* C19 as amended: a get_stock_data(S) call reaches the provider exactly
\* when its cache lookup finds no quote stored for S less than CACHE_TTL
\* before; calls whose lookups come before the first store each reach the
\* provider, so that the provider calls that succeed for S within CACHE_TTL
\* seconds are at most as many as the threads that serve a request at once.
C19_ShieldAfterStore ==
    /\ [](last.type = "lookup" => (last.hit <=> stored[last.symbol] # {}))
    /\ [][last'.type = "lookup" =>
              IF last'.hit
              THEN FetchingIn(req', last'.symbol) = FetchingIn(req, last'.symbol)
              ELSE /\ Cardinality(FetchingIn(req', last'.symbol)) =
                          Cardinality(FetchingIn(req, last'.symbol)) + 1
                   /\ stored[last'.symbol] = {}]_vars
    /\ [](\A s \in Symbols :
              /\ Cardinality(stored[s]) <= NumThreads
              /\ Cardinality(Fetching(s)) <= NumThreads)

\* Two calls are in the provider for TCS.NS at once.
C19_Witness ==
    /\ Cardinality(Fetching(TCS_NS)) = 2
    /\ last.type = "lookup"
    /\ ~last.hit

(***************************************************************************)
(* The gainers and the losers view side by side: thread 1 serves the       *)
(* requests for gainers and thread 2 those for losers, with a provider     *)
(* whose prices move.                                                      *)
(***************************************************************************)
CrossInit ==
    /\ now = 0
    /\ cache = <<>>
    /\ req = [t \in Threads |-> Idle]
    /\ routes = {"gainers", "losers"}
    /\ last = NoEvent
    /\ puts = <<>>
    /\ stored = [s \in HistoryKeys |-> {}]
    /\ LockAtRest
    /\ input = None
    /\ output = None

\* The provider's answers: a rise of 10 % and a fall of 5 %.
CrossOutcomes == {Data(110004, Num(100000)), Data(95000, Num(100000))}

CrossNext ==
    \/ Tick
    \/ BeginView(1, "gainers")
    \/ BeginView(2, "losers")
    \/ \E t \in Threads, i \in 1..Len(NIFTY_50_STOCKS) : StartTask(t, i)
    \/ \E t \in Threads, i \in 1..Len(NIFTY_50_STOCKS), out \in CrossOutcomes :
           FinishTask(t, i, out)
    \/ \E t \in Threads : RespondView(t)

SpecCross == CrossInit /\ [][CrossNext]_vars

\* What a request for the view would be served from the cache now.
Cached(view) == get_cached(cache, ViewKey(view), now)

BothCached == Truthy(Cached("gainers")) /\ Truthy(Cached("losers"))

\* C20 as claimed: no symbol is both in the gainers response and in the
\* losers response that the service serves at the same moment.
C20_Original ==
    BothCached =>
        \A i \in 1..Len(Cached("gainers").data),
           j \in 1..Len(Cached("losers").data) :
            Cached("gainers").data[i].symbol # Cached("losers").data[j].symbol

\* C20 as amended: in the responses served at the same moment every gainer
\* has changePercent > 0 and every loser changePercent < 0, so that no quote
\* is in both; a symbol is in both only with two different quotes, fetched
\* by two provider calls.  Each response when built holds no symbol twice.
C20_NoQuoteInBoth ==
    /\ BothCached =>
           \A i \in 1..Len(Cached("gainers").data),
              j \in 1..Len(Cached("losers").data) :
               /\ Cached("gainers").data[i].changePercent > 0
               /\ Cached("losers").data[j].changePercent < 0
               /\ Cached("gainers").data[i] # Cached("losers").data[j]
    /\ (last.type = "response" /\ last.op \in {"gainers", "losers"}) =>
           \A i, j \in 1..Len(last.response.data) :
               last.response.data[i].symbol = last.response.data[j].symbol
                   => i = j

\* TCS.NS is served as a gainer and as a loser at once.
C20_Witness ==
    /\ BothCached
    /\ \E i \in 1..Len(Cached("gainers").data),
          j \in 1..Len(Cached("losers").data) :
           /\ Cached("gainers").data[i].symbol = TCS_NS
           /\ Cached("losers").data[j].symbol = TCS_NS

=============================================================================
